---------------------------- MODULE Spec2Model ----------------------------
(***************************************************************************)
(* A model of the schedule derivation code of transx2gtfs:                 *)
(*   transxchange.py   parse_runtime_duration, get_midnight_formatted_times*)
(*                     get_last_stop_time_info, process_vehicle_journeys   *)
(*   stop_times.py     generate_service_id                                 *)
(*   calendar_dates.py get_calendar_dates                                  *)
(*   bank_holidays.py  get_bank_holiday_dates                              *)
(*   converter.py      create_workers, process_files, convert              *)
(*                                                                         *)
(* Python strings that the code takes apart (run-time tokens) are          *)
(* sequences of one-character strings.  Python's None is the value None,   *)
(* a pandas missing value is NaN.                                          *)
(***************************************************************************)
EXTENDS Integers, Sequences, FiniteSets, TLC

None == "<None>"
NaN == "<NaN>"

-----------------------------------------------------------------------------
(* Python string primitives used by parse_runtime_duration.                *)

Digits == {"0", "1", "2", "3", "4", "5", "6", "7", "8", "9"}

DigitVal(c) ==
  CASE c = "0" -> 0 [] c = "1" -> 1 [] c = "2" -> 2 [] c = "3" -> 3
    [] c = "4" -> 4 [] c = "5" -> 5 [] c = "6" -> 6 [] c = "7" -> 7
    [] c = "8" -> 8 [] c = "9" -> 9

\* int(s) succeeds on a non-empty string of decimal digits (the alphabet of
\* the model has no sign, blank or underscore); otherwise ValueError.
IsDigits(s) == Len(s) > 0 /\ \A i \in 1..Len(s) : s[i] \in Digits

RECURSIVE StrToInt(_)
StrToInt(s) ==
  IF Len(s) = 0 THEN 0
  ELSE 10 * StrToInt(SubSeq(s, 1, Len(s) - 1)) + DigitVal(s[Len(s)])

\* c in s
Contains(s, c) == \E i \in 1..Len(s) : s[i] = c

\* s.find(sep) + 1: the first position where sep occurs in s, 0 if none.
IndexOf(s, sep) ==
  LET hits == {i \in 1..(Len(s) - Len(sep) + 1) :
                 SubSeq(s, i, i + Len(sep) - 1) = sep}
  IN IF hits = {} THEN 0 ELSE CHOOSE i \in hits : \A j \in hits : i <= j

\* s.split(sep)
RECURSIVE Split(_, _)
Split(s, sep) ==
  LET i == IndexOf(s, sep)
  IN IF i = 0 THEN <<s>>
     ELSE <<SubSeq(s, 1, i - 1)>> \o Split(SubSeq(s, i + Len(sep), Len(s)), sep)

-----------------------------------------------------------------------------
(* transxchange.py: parse_runtime_duration                                 *)

HOUR_IN_SECONDS == 60 * 60
MINUTE_IN_SECONDS == 60

\* One "if 'U' in runtime:" block: split on the unit, add int(split[0]) * mult,
\* go on with split[1].  int() raising ValueError ends the call.
RuntimeBlock(st, unit, mult) ==
  IF st.raised \/ ~Contains(st.runtime, unit) THEN st
  ELSE LET split == Split(st.runtime, <<unit>>)
       IN IF ~IsDigits(split[1])
          THEN [st EXCEPT !.raised = TRUE]
          ELSE [raised |-> FALSE,
                time |-> st.time + StrToInt(split[1]) * mult,
                runtime |-> split[2]]

\* [raised |-> the call raised (IndexError, ValueError), time |-> its result]
parse_runtime_duration(runtime) ==
  LET parts == Split(runtime, <<"P", "T">>)
  IN IF Len(parts) < 2
     THEN [raised |-> TRUE, time |-> 0]
     ELSE LET s0 == [raised |-> FALSE, time |-> 0, runtime |-> parts[2]]
              s1 == RuntimeBlock(s0, "H", HOUR_IN_SECONDS)
              s2 == RuntimeBlock(s1, "M", MINUTE_IN_SECONDS)
              s3 == RuntimeBlock(s2, "S", MINUTE_IN_SECONDS)
          IN [raised |-> s3.raised, time |-> IF s3.raised THEN 0 ELSE s3.time]

\* Run-time tokens: PT, then optionally nH, nM, nS in this order.
Numbers == {<<"1">>, <<"2">>, <<"3">>, <<"3", "0">>, <<"4", "5">>}
Component(unit) == {<<>>} \cup {n \o <<unit>> : n \in Numbers}
WellFormedTokens ==
  {<<"P", "T">> \o h \o m \o s :
     h \in Component("H"), m \in Component("M"), s \in Component("S")}
\* 'PT5X', '5M', 'P1D', 'PTM', 'PT5M3'
MalformedTokens ==
  {<<"P", "T", "5", "X">>, <<"5", "M">>, <<"P", "1", "D">>, <<"P", "T", "M">>,
   <<"P", "T", "5", "M", "3">>}
RuntimeTokens == WellFormedTokens \cup MalformedTokens

\* The token PT[hH][mM][sS]; an empty h, m or s leaves the component out.
TokenOf(h, m, s) ==
  <<"P", "T">> \o (IF h = <<>> THEN <<>> ELSE h \o <<"H">>)
               \o (IF m = <<>> THEN <<>> ELSE m \o <<"M">>)
               \o (IF s = <<>> THEN <<>> ELSE s \o <<"S">>)

-----------------------------------------------------------------------------
(* datetime values are seconds since 00:00:00 of current_date (the day     *)
(* process_vehicle_journeys runs on); a timedelta is a number of seconds.  *)

DtHour(dt) == (dt \div 3600) % 24
DtMinute(dt) == (dt \div 60) % 60
DtSecond(dt) == dt % 60

\* datetime.combine(current_date, time(h, m, s))
Combine(h, m, s) == h * 3600 + m * 60 + s

\* (td / 60 / 60).seconds for a timedelta of td >= 0 whole seconds: the
\* division keeps microseconds, .seconds drops them and the whole days.
HoursAsSeconds(td) == (td \div 3600) % 86400

\* "{hour}:{minsecs}".format(hour=str(hour).zfill(2), minsecs=dt.strftime("%M:%S")):
\* the string HH:MM:SS is kept as its three decimal fields.
TimeString(hour, dt) == <<hour, DtMinute(dt), DtSecond(dt)>>

\* transxchange.py: get_midnight_formatted_times (current_date is day 0)
get_midnight_formatted_times(arrival_hour, departure_hour, hour, current_dt, departure_dt) ==
  IF arrival_hour < hour
  THEN LET last_second_of_day == Combine(23, 59, 59)
           arrival_over_midnight_surplus ==
             HoursAsSeconds(current_dt - last_second_of_day) + 1
           departure_over_midnight_surplus ==
             HoursAsSeconds(departure_dt - last_second_of_day) + 1
       IN <<23 + arrival_over_midnight_surplus, 23 + departure_over_midnight_surplus>>
  ELSE <<arrival_hour, departure_hour>>

\* Boarding time in seconds (transxchange.py line 110)
boarding_time == 0

\* The two time strings of a row whose cursor is current_dt and whose
\* departure is departure_dt, for a trip that started in hour `hour`.
FormattedTimes(hour, current_dt, departure_dt) ==
  LET hours == get_midnight_formatted_times(DtHour(current_dt), DtHour(departure_dt),
                                            hour, current_dt, departure_dt)
  IN [arrival_time |-> TimeString(hours[1], current_dt),
      departure_time |-> TimeString(hours[2], departure_dt)]

\* transxchange.py: get_last_stop_time_info
get_last_stop_time_info(link, hour, current_dt, duration, stop_num) ==
  LET arrival_dt == current_dt + duration
      departure_dt == arrival_dt + boarding_time
      t == FormattedTimes(hour, arrival_dt, departure_dt)
  IN [stop_id |-> link.To,
      stop_sequence |-> stop_num,
      arrival_time |-> t.arrival_time,
      departure_time |-> t.departure_time]

-----------------------------------------------------------------------------
(* stop_times.py: generate_service_id                                      *)

\* The value of the service_id column where no service_id was written.
NoServiceId == <<>>

\* "%s_%s_%s_%s" % (service_ref, start_d, end_d, daygroup), kept as its four
\* fields: dates are 8 digits and day specifiers hold no '_'.
ServiceIdString(service_ref, start_d, end_d, daygroup) ==
  <<service_ref, start_d, end_d, daygroup>>

\* stop_times.drop_duplicates(subset=['vehicle_journey_id']): the positions of
\* the first row of every vehicle journey.
FirstRows(stop_times) ==
  {i \in 1..Len(stop_times) :
     \A j \in 1..(i - 1) :
        stop_times[j].vehicle_journey_id # stop_times[i].vehicle_journey_id}

\* groupby('weekdays') leaves out the rows whose key is missing.
IsMissing(v) == v = None \/ v = NaN

\* The position of the first row of the group with key `weekday`: the group's
\* service_ref, start_date and end_date are read there (unique()[0]).
GroupHead(stop_times, weekday) ==
  LET members == {i \in FirstRows(stop_times) : stop_times[i].weekdays = weekday}
  IN CHOOSE i \in members : \A j \in members : i <= j

\* The weekday groups whose list of vehicle journey ids holds vj.
GroupsOf(stop_times, vj) ==
  {stop_times[i].weekdays : i \in {k \in FirstRows(stop_times) :
       /\ stop_times[k].vehicle_journey_id = vj
       /\ ~IsMissing(stop_times[k].weekdays)}}

ServiceIdOfGroup(stop_times, weekday) ==
  LET head == stop_times[GroupHead(stop_times, weekday)]
  IN ServiceIdString(head.service_ref, head.start_date, head.end_date, head.weekdays)

generate_service_id(stop_times) ==
  [i \in 1..Len(stop_times) |->
     LET row == stop_times[i]
         groups == GroupsOf(stop_times, row.vehicle_journey_id)
         service_id == IF groups = {} THEN NoServiceId
                       ELSE ServiceIdOfGroup(stop_times, CHOOSE w \in groups : TRUE)
     IN [stop_id |-> row.stop_id,
         stop_sequence |-> row.stop_sequence,
         timepoint |-> row.timepoint,
         arrival_time |-> row.arrival_time,
         departure_time |-> row.departure_time,
         route_link_ref |-> row.route_link_ref,
         trip_id |-> row.trip_id,
         vehicle_journey_id |-> row.vehicle_journey_id,
         service_ref |-> row.service_ref,
         start_date |-> row.start_date,
         end_date |-> row.end_date,
         weekdays |-> row.weekdays,
         non_operative_days |-> row.non_operative_days,
         service_id |-> service_id]]

-----------------------------------------------------------------------------
(* bank_holidays.py: get_bank_holiday_dates, calendar_dates.py:            *)
(* get_calendar_dates.  An exception specifier is a sequence of words, the *)
(* element names and the '|' that get_calendar_dates_exceptions joins them *)
(* with; <<>> is the empty string.                                         *)

\* A missing value of the non_operative_days column.
MissingDays == <<None>>

\* known_holidays.keys() and known_holidays[label]
KnownHolidayLabels ==
  {<<"SpringBank">>, <<"LateSummerBankHolidayNotScotland">>, <<"MayDay">>,
   <<"GoodFriday">>, <<"EasterMonday">>}
known_holidays(label) ==
  CASE label = <<"SpringBank">> -> "Spring bank holiday"
    [] label = <<"LateSummerBankHolidayNotScotland">> -> "Summer bank holiday"
    [] label = <<"MayDay">> -> "Early May bank holiday"
    [] label = <<"GoodFriday">> -> "Good Friday"
    [] label = <<"EasterMonday">> -> "Easter Monday"

\* The events of bank-holidays.json, by region.
available_regions == <<"england-and-wales", "scotland", "northern-ireland">>
bholidays(region) ==
  CASE region = "england-and-wales" ->
         <<[date |-> 20200410, title |-> "Good Friday"],
           [date |-> 20200413, title |-> "Easter Monday"],
           [date |-> 20200508, title |-> "Early May bank holiday"]>>
    [] region = "scotland" ->
         <<[date |-> 20200410, title |-> "Good Friday"],
           [date |-> 20200508, title |-> "Early May bank holiday"],
           [date |-> 20200803, title |-> "Summer bank holiday"]>>
    [] region = "northern-ireland" ->
         <<[date |-> 20200317, title |-> "St Patrick's Day"],
           [date |-> 20200410, title |-> "Good Friday"],
           [date |-> 20200413, title |-> "Easter Monday"],
           [date |-> 20200508, title |-> "Early May bank holiday"]>>

\* A set of numbers as the ascending sequence (sort_values).
RECURSIVE Ascending(_)
Ascending(S) ==
  IF S = {} THEN <<>>
  ELSE LET least == CHOOSE x \in S : \A y \in S : x <= y
       IN <<least>> \o Ascending(S \ {least})

\* Lines 26-42: the events of all regions, one per date, sorted by date.
BankHolidayDates ==
  Ascending(UNION {{bholidays(available_regions[r])[i].date :
                      i \in 1..Len(bholidays(available_regions[r]))} :
                   r \in 1..Len(available_regions)})

\* The holidays in range (lines 44-48): the dates d with lo <= d <= hi.
DatesInRange(lo, hi) == SelectSeq(BankHolidayDates, LAMBDA d : lo <= d /\ d <= hi)

\* fetch is what pd.read_json(bank_holidays_url) does: "ok", "HTTPError" (the
\* static file is read instead) or "URLError" (not caught).
\* [raised |-> the call raised, dates |-> the dates, <<>> for None]
get_bank_holiday_dates(info, fetch) ==
  IF fetch = "URLError" THEN [raised |-> TRUE, dates |-> <<>>]
  ELSE LET start_date_min == CHOOSE x \in {info[i].start_date : i \in 1..Len(info)} :
                               \A i \in 1..Len(info) : x <= info[i].start_date
           end_date_max == CHOOSE x \in {info[i].end_date : i \in 1..Len(info)} :
                               \A i \in 1..Len(info) : x >= info[i].end_date
       IN [raised |-> FALSE, dates |-> DatesInRange(start_date_min, end_date_max)]

\* Lines 64-75: the distinct labels of the non_operative_days column.
NonOperatives(info) ==
  UNION {LET v == info[i].non_operative_days
         IN IF Contains(v, "|")
            THEN {Split(v, <<"|">>)[k] : k \in 1..Len(Split(v, <<"|">>))}
            ELSE IF v # <<>> THEN {v} ELSE {} : i \in 1..Len(info)}

\* Lines 78-82: the labels a warning is issued for.
Unrecognized(non_operatives) ==
  {holiday \in non_operatives :
     holiday \notin KnownHolidayLabels /\ holiday # <<"AllBankHolidays">>}

\* drop_duplicates(subset=['service_id']): positions of the first row of
\* every service_id.
FirstOfService(info) ==
  {i \in 1..Len(info) : \A j \in 1..(i - 1) : info[j].service_id # info[i].service_id}

\* Lines 110-118: for every service (in row order) one row per date.
RECURSIVE CalendarDateRows(_, _, _)
CalendarDateRows(info, i, dates) ==
  IF i > Len(info) THEN <<>>
  ELSE (IF i \in FirstOfService(info)
        THEN [k \in 1..Len(dates) |->
                [service_id |-> info[i].service_id, date |-> dates[k],
                 exception_type |-> 2]]
        ELSE <<>>) \o CalendarDateRows(info, i + 1, dates)

\* [status |-> "rows", "None" or "raised", rows |-> the calendar_dates rows,
\*  warnings |-> the labels warned about]
get_calendar_dates(gtfs_info_arg, fetch) ==
  LET info == SelectSeq(gtfs_info_arg, LAMBDA r : r.non_operative_days # MissingDays)
      non_operatives == NonOperatives(info)
      warnings == Unrecognized(non_operatives)
      bank_holidays == get_bank_holiday_dates(info, fetch)
  IN IF non_operatives = {}
     THEN [status |-> "None", rows |-> <<>>, warnings |-> warnings]
     ELSE IF bank_holidays.raised
     THEN [status |-> "raised", rows |-> <<>>, warnings |-> warnings]
     ELSE IF bank_holidays.dates = <<>>
     THEN [status |-> "None", rows |-> <<>>, warnings |-> warnings]
     ELSE [status |-> "rows",
           rows |-> CalendarDateRows(info, 1, bank_holidays.dates),
           warnings |-> warnings]

\* The inputs of get_calendar_dates: one row per vehicle journey.
MaxServices == 2

ExceptionSpecifiers ==
  {MissingDays, <<"AllBankHolidays">>, <<"GoodFriday">>,
   <<"GoodFriday", "|", "EasterMonday">>, <<"ChristmasDay">>}

OperativeRanges ==
  {[start_date |-> 20200401, end_date |-> 20200430],
   [start_date |-> 20200414, end_date |-> 20200430],
   [start_date |-> 20200501, end_date |-> 20200531],
   [start_date |-> 20200601, end_date |-> 20200630]}

\* The row of the i-th journey: the service_id is the one generate_service_id
\* writes for service i with that range.
ServiceRow(i, days, range) ==
  [service_id |-> ServiceIdString(<<"SV", i>>, range.start_date, range.end_date, "MondayToFriday"),
   non_operative_days |-> days,
   start_date |-> range.start_date,
   end_date |-> range.end_date]

CalendarInputs ==
  UNION {{[i \in 1..n |-> ServiceRow(i, c[i][1], c[i][2])] :
            c \in [1..n -> ExceptionSpecifiers \X OperativeRanges]} :
         n \in 1..MaxServices}

FetchOutcomes == {"ok", "HTTPError", "URLError"}

-----------------------------------------------------------------------------
(* The inputs of process_vehicle_journeys.                                 *)

MaxJourneys == 2
MaxLinks == 2

\* RunTime tokens of the timing links: PT20M, PT40M, PT23H30M
LinkRunTimes ==
  {TokenOf(<<>>, <<"2", "0">>, <<>>),
   TokenOf(<<>>, <<"4", "0">>, <<>>),
   TokenOf(<<"2", "3">>, <<"3", "0">>, <<>>)}

\* The k-th JourneyPatternTimingLink of section id: From and To are the
\* StopPointRefs, the stops of a section are numbered along it.
TimingLink(id, k, runtime) ==
  [From |-> <<id, k>>, To |-> <<id, k + 1>>,
   RouteLinkRef |-> <<"RL", id, k>>, RunTime |-> runtime]

SectionsWith(id, n) ==
  {[id |-> id, links |-> [k \in 1..n |-> TimingLink(id, k, rts[k])]] :
     rts \in [1..n -> LinkRunTimes]}

\* JourneyPatternSections of the document, in document order: JPS1 with one to
\* MaxLinks links, then JPS2 with one link of 20 minutes.
Documents ==
  {<<s1, s2>> : s1 \in UNION {SectionsWith("JPS1", n) : n \in 1..MaxLinks},
                s2 \in {[id |-> "JPS2",
                         links |-> <<TimingLink("JPS2", 1, TokenOf(<<>>, <<"2", "0">>, <<>>))>>]}}

\* The table get_service_journey_pattern_info gives: pattern JP1 follows
\* section JPS1, JP2 chains JPS1 and JPS2, JP3 names a section the document
\* does not hold.  JP1 and JP3 are of service SV1, JP2 of service SV2.
service_jp_info ==
  <<[journey_pattern_id |-> "JP1", jp_section_reference |-> "JPS1",
     service_code |-> "SV1", start_date |-> 20200101, end_date |-> 20200630],
    [journey_pattern_id |-> "JP2", jp_section_reference |-> "JPS1",
     service_code |-> "SV2", start_date |-> 20200701, end_date |-> 20201231],
    [journey_pattern_id |-> "JP2", jp_section_reference |-> "JPS2",
     service_code |-> "SV2", start_date |-> 20200701, end_date |-> 20201231],
    [journey_pattern_id |-> "JP3", jp_section_reference |-> "JPS9",
     service_code |-> "SV1", start_date |-> 20200101, end_date |-> 20200630]>>

JourneyPatternIds == {service_jp_info[i].journey_pattern_id : i \in 1..Len(service_jp_info)}

\* service_jp_info.loc[service_jp_info['journey_pattern_id'] == journey_pattern_id]
PatternRows(journey_pattern_id) ==
  {i \in 1..Len(service_jp_info) :
     service_jp_info[i].journey_pattern_id = journey_pattern_id}

\* service_journey_patterns['jp_section_reference'].to_list()
SectionReferences(journey_pattern_id) ==
  {service_jp_info[i].jp_section_reference : i \in PatternRows(journey_pattern_id)}

\* service_journey_patterns[cols].values[0]
PatternInfo(journey_pattern_id) ==
  LET rows == PatternRows(journey_pattern_id)
  IN service_jp_info[CHOOSE i \in rows : \A j \in rows : i <= j]

\* DepartureTime of a vehicle journey, "HH:MM:SS" split at ':' and made int.
DepartureTimes == {<<23, 45, 0>>, <<10, 0, 0>>, <<10, 0, 30>>, <<1, 23, 0>>, <<12, 3, 0>>}

\* What get_weekday_info and get_calendar_dates_exceptions give for a
\* vehicle journey: None for both without an OperatingProfile.
OperatingProfiles ==
  {[weekdays |-> None, non_operative_days |-> None],
   [weekdays |-> "Weekend", non_operative_days |-> "GoodFriday"]}

VehicleJourney(i, departure, pattern, profile) ==
  [VehicleJourneyCode |-> <<"VJ", i>>,
   ServiceRef |-> PatternInfo(pattern).service_code,
   JourneyPatternRef |-> pattern,
   DepartureTime |-> departure,
   weekdays |-> profile.weekdays,
   non_operative_days |-> profile.non_operative_days]

JourneyLists ==
  UNION {{[i \in 1..n |-> VehicleJourney(i, c[i][1], c[i][2], c[i][3])] :
            c \in [1..n -> DepartureTimes \X JourneyPatternIds \X OperatingProfiles]} :
         n \in 1..MaxJourneys}

-----------------------------------------------------------------------------
(* converter.py: create_workers, process_files, convert.                   *)

MaxFiles == 3

\* multiprocessing.cpu_count() of the machine the conversion runs on.
CoreCount == 2

\* What processing a source document does: it is derived and pushed ("ok"),
\* an error is raised while it is parsed or derived ("malformed"), or it is
\* larger than file_size_limit ("oversize").
FileKinds == {"ok", "malformed", "oversize"}

InputFileLists ==
  UNION {{[i \in 1..n |-> [name |-> i, kind |-> kinds[i]]] : kinds \in [1..n -> FileKinds]} :
         n \in 0..MaxFiles}

\* The tables process_files pushes for a document, in the order of its
\* to_sql calls (lines 1401-1410).
Tables == <<"stops", "routes", "agency", "trips", "stop_times", "calendar", "calendar_dates">>

\* s[a:b] of Python, a and b >= 0 counted from 0.
Slice(s, a, b) ==
  LET lo == IF a > Len(s) THEN Len(s) ELSE a
      hi == IF b > Len(s) THEN Len(s) ELSE b
  IN SubSeq(s, lo + 1, hi)

\* math.ceil(file_cnt / core_cnt)
BatchSize(file_cnt, core_cnt) == (file_cnt + core_cnt - 1) \div core_cnt

\* create_workers as it would be if a slice held its end index too.
create_workers_inclusive_end(files, core_cnt) ==
  LET batch_size == BatchSize(Len(files), core_cnt)
  IN [w \in 1..core_cnt |->
        IF w = core_cnt
        THEN Slice(files, (w - 1) * batch_size, Len(files))
        ELSE Slice(files, (w - 1) * batch_size, w * batch_size + 1)]

\* converter.py and distribute.py: create_workers: the input_files of the
\* workers, in order.
create_workers(files, core_cnt) ==
  LET batch_size == BatchSize(Len(files), core_cnt)
  IN [w \in 1..core_cnt |->
        IF w = core_cnt
        THEN Slice(files, (w - 1) * batch_size, Len(files))
        ELSE Slice(files, (w - 1) * batch_size, w * batch_size)]

-----------------------------------------------------------------------------
(* calendar.py: parse_day_range, get_calendar.  A day specifier is the      *)
(* sequence of its characters.                                              *)

UpperCaseLetters ==
  <<"A", "B", "C", "D", "E", "F", "G", "H", "I", "J", "K", "L", "M",
    "N", "O", "P", "Q", "R", "S", "T", "U", "V", "W", "X", "Y", "Z">>
LowerCaseLetters ==
  <<"a", "b", "c", "d", "e", "f", "g", "h", "i", "j", "k", "l", "m",
    "n", "o", "p", "q", "r", "s", "t", "u", "v", "w", "x", "y", "z">>

\* s.lower()
LowerChar(c) ==
  IF \E i \in 1..Len(UpperCaseLetters) : UpperCaseLetters[i] = c
  THEN LowerCaseLetters[CHOOSE i \in 1..Len(UpperCaseLetters) : UpperCaseLetters[i] = c]
  ELSE c
Lower(s) == [i \in 1..Len(s) |-> LowerChar(s[i])]

\* s.strip(): the blanks at both ends removed.
RECURSIVE Strip(_)
Strip(s) ==
  IF s = <<>> THEN s
  ELSE IF s[1] = " " THEN Strip(Tail(s))
  ELSE IF s[Len(s)] = " " THEN Strip(SubSeq(s, 1, Len(s) - 1))
  ELSE s

\* sub in s, for strings
HasSubstring(s, sub) == IndexOf(s, sub) # 0

\* num_to_weekday, and weekday_to_num by its keys: the number of a day name
\* is its position in num_to_weekday, counted from 0.
num_to_weekday ==
  <<<<"m", "o", "n", "d", "a", "y">>,
    <<"t", "u", "e", "s", "d", "a", "y">>,
    <<"w", "e", "d", "n", "e", "s", "d", "a", "y">>,
    <<"t", "h", "u", "r", "s", "d", "a", "y">>,
    <<"f", "r", "i", "d", "a", "y">>,
    <<"s", "a", "t", "u", "r", "d", "a", "y">>,
    <<"s", "u", "n", "d", "a", "y">>>>

\* weekday_to_num as it would be with the days counted from 1.
weekday_to_num_from_one(name) == CHOOSE n \in 1..7 : num_to_weekday[n] = name

IsWeekdayKey(name) == \E n \in 1..7 : num_to_weekday[n] = name
weekday_to_num(name) == (CHOOSE n \in 1..7 : num_to_weekday[n] = name) - 1

\* The active days of 'weekend' as they would be if none was appended.
NoActiveDays == {}

\* Lines 56-57: the active days of 'weekend'.
WeekendDays == {5, 6}

\* Lines 80-96: the calendar row of the active days, day column by number.
DayRow(active_days) == [daynum \in 0..6 |-> IF daynum \in active_days THEN 1 ELSE 0]

\* [raised |-> a KeyError or AttributeError left the call, row |-> the row]
DayRangeError == [raised |-> TRUE, row |-> DayRow({})]

\* parse_day_range on a missing value, as it would be if missing meant every day.
MissingDayinfoIsEveryDay == [raised |-> FALSE, row |-> DayRow(0..6)]

\* Line 55 on None: None has no strip, AttributeError.
OnMissingDayinfo == DayRangeError

\* The days of a range as they would be if a range whose end day precedes
\* its start day went on over the end of the week.
range_around_the_week(start_i, end_i) ==
  IF start_i <= end_i THEN start_i..end_i ELSE (start_i..6) \cup (0..end_i)

\* Lines 66-68: range(start_i, end_i + 1), empty if end_i < start_i.
ActiveDaysOfRange(start_i, end_i) == {idx \in 0..6 : start_i <= idx /\ idx < end_i + 1}

\* dayinfo is <<None>> where the weekdays value is missing.
parse_day_range(dayinfo) ==
  IF dayinfo = <<None>> THEN OnMissingDayinfo
  ELSE IF HasSubstring(Lower(Strip(dayinfo)), <<"w", "e", "e", "k", "e", "n", "d">>)
  THEN [raised |-> FALSE, row |-> DayRow(WeekendDays)]
  ELSE IF HasSubstring(dayinfo, <<"T", "o">>)
  THEN LET day_range == Split(dayinfo, <<"T", "o">>)
       IN IF IsWeekdayKey(Lower(day_range[1])) /\ IsWeekdayKey(Lower(day_range[2]))
          THEN LET start_i == weekday_to_num(Lower(day_range[1]))
                   end_i == weekday_to_num(Lower(day_range[2]))
               IN [raised |-> FALSE, row |-> DayRow(ActiveDaysOfRange(start_i, end_i))]
          ELSE DayRangeError
  ELSE IF HasSubstring(dayinfo, <<"|">>)
  THEN LET days == Split(dayinfo, <<"|">>)
       IN IF \A k \in 1..Len(days) : IsWeekdayKey(Lower(days[k]))
          THEN [raised |-> FALSE,
                row |-> DayRow({weekday_to_num(Lower(days[k])) : k \in 1..Len(days)})]
          ELSE DayRangeError
  ELSE IF IsWeekdayKey(Lower(dayinfo))
  THEN [raised |-> FALSE, row |-> DayRow({weekday_to_num(Lower(dayinfo))})]
  ELSE DayRangeError

\* The positions of the rows drop_duplicates(subset=use_cols) keeps: the
\* first row of every (service_id, weekdays, start_date, end_date).
CalendarKey(row) == <<row.service_id, row.weekdays, row.start_date, row.end_date>>
DistinctCalendarRows(info) ==
  {i \in 1..Len(info) : \A j \in 1..(i - 1) : CalendarKey(info[j]) # CalendarKey(info[i])}

\* The characters of a weekdays value of the expanded table; <<None>> where
\* the value is missing.
DayinfoOf(weekdays) ==
  CASE weekdays = "MondayToFriday" ->
         <<"M", "o", "n", "d", "a", "y", "T", "o", "F", "r", "i", "d", "a", "y">>
    [] weekdays = "Weekend" -> <<"W", "e", "e", "k", "e", "n", "d">>
    [] OTHER -> <<None>>

\* Lines 110-123: one calendar row per kept row, in row order.
RECURSIVE CalendarRows(_, _)
CalendarRows(info, i) ==
  IF i > Len(info) THEN <<>>
  ELSE (IF i \in DistinctCalendarRows(info)
        THEN <<[service_id |-> info[i].service_id,
                days |-> parse_day_range(DayinfoOf(info[i].weekdays)).row,
                start_date |-> info[i].start_date,
                end_date |-> info[i].end_date]>>
        ELSE <<>>) \o CalendarRows(info, i + 1)

\* [raised |-> an error left the call, rows |-> the rows of gtfs_calendar]:
\* the error of parse_day_range on any kept row, or the KeyError of the
\* column selection on a table without rows.
get_calendar(info) ==
  IF \/ info = <<>>
     \/ \E i \in DistinctCalendarRows(info) :
           parse_day_range(DayinfoOf(info[i].weekdays)).raised
  THEN [raised |-> TRUE, rows |-> <<>>]
  ELSE [raised |-> FALSE, rows |-> CalendarRows(info, 1)]

\* The day specifiers parse_day_range is called on.
Capitalized(name) ==
  <<UpperCaseLetters[CHOOSE i \in 1..26 : LowerCaseLetters[i] = name[1]]>> \o Tail(name)
DayNames == {Capitalized(num_to_weekday[n]) : n \in 1..7}
WeekendWord == <<"W", "e", "e", "k", "e", "n", "d">>
UpperCased(s) ==
  [i \in 1..Len(s) |->
     IF \E k \in 1..26 : LowerCaseLetters[k] = s[i]
     THEN UpperCaseLetters[CHOOSE k \in 1..26 : LowerCaseLetters[k] = s[i]]
     ELSE s[i]]
DaySpecifiers ==
  DayNames
  \cup {Lower(d) : d \in DayNames}
  \cup {a \o <<"T", "o">> \o b : a \in DayNames, b \in DayNames}
  \cup {a \o <<"|">> \o b : a \in DayNames, b \in DayNames}
  \cup {WeekendWord, Lower(WeekendWord), UpperCased(WeekendWord),
        <<" ">> \o WeekendWord \o <<" ">>, <<" ">> \o Lower(WeekendWord)}
  \cup {Capitalized(num_to_weekday[1]) \o <<"T", "o">> \o Capitalized(num_to_weekday[5])
          \o <<"|">> \o Capitalized(num_to_weekday[6]),
        Capitalized(num_to_weekday[1]) \o <<"|">> \o WeekendWord}
  \cup {<<"H", "o", "l", "i", "d", "a", "y">>,
        <<" ">> \o Capitalized(num_to_weekday[1]),
        Capitalized(num_to_weekday[1]) \o <<"T", "o">>,
        <<None>>}

\* The arguments create_workers of distribute.py is called with: the files
\* and worker_cnt, an integer >= 1.
MaxWorkerFiles == 5
MaxWorkers == 4
WorkerFileLists ==
  UNION {{[i \in 1..n |-> [name |-> i, kind |-> kinds[i]]] : kinds \in [1..n -> FileKinds]} :
         n \in 0..MaxWorkerFiles}

-----------------------------------------------------------------------------
VARIABLES
  rtToken,      \* parse_runtime_duration: the argument
  rtResult,     \* parse_runtime_duration: what the call gave
  rtPc,         \* "call" before the call, "return" after it
  \* process_vehicle_journeys: its arguments
  vjourneys, sections, service_operative_days, service_non_operative_days,
  \* process_vehicle_journeys: its locals
  pc,             \* the place in the code
  journey_i,      \* position of the journey loop in vjourneys
  section_i,      \* position of the section loop in sections
  link_i,         \* position of the link loop in the section's links
  stop_num,
  current_dt,     \* <<>> for None, <<dt>> for a datetime
  section_times,  \* [bound |-> the name is assigned, rows |-> its rows]
  gtfs_info,      \* the rows gathered so far
  \* get_calendar_dates: its argument, what the URL read does, its result
  cdInfo, cdFetch, cdResult,
  cdPc,           \* "call" before the call, "return" after it
  \* convert
  input_files,    \* the files glob found
  workers,        \* the input_files of every worker
  worker_i,       \* the position of every worker's file loop
  worker_state,   \* "running", "finished" or "raised", by worker
  database,       \* the <<file, table>> whose rows are in gtfs.db
  exported,       \* the <<file, table>> whose rows are in the zip file
  push_i,         \* by worker: the position in Tables of the to_sql call it
                  \* is at, 0 outside the push of a document
  writer,         \* the worker whose transaction holds the write lock of
                  \* gtfs.db, 0 if none
  convert_pc,     \* the place in convert
  \* what get_calendar gave for the expanded table
  calendar,
  \* parse_day_range: its argument, what the call gave, "call" or "return"
  drDayinfo, drResult, drPc,
  \* create_workers: its arguments, what the call gave, "call" or "return"
  cwFiles, cwCount, cwResult, cwPc,
  \* get_stop_times: its argument, what the call gave, "call" or "return"
  stInfo, stResult, stPc,
  \* generate_gtfs_export: the rows of the calendar_dates table of gtfs.db,
  \* the calendar_dates of the export, "call" or "return"
  geStaged, geResult, gePc,
  \* parse_day_range of converter.py called on drDayinfo: what the call
  \* gave, "call" or "return"
  cvResult, cvPc

rtVars == <<rtToken, rtResult, rtPc>>
pvjInputs == <<vjourneys, sections, service_operative_days, service_non_operative_days>>
pvjVars == <<vjourneys, sections, service_operative_days, service_non_operative_days,
             pc, journey_i, section_i, link_i, stop_num, current_dt,
             section_times, gtfs_info, calendar>>
cdVars == <<cdInfo, cdFetch, cdResult, cdPc>>
convertVars == <<input_files, workers, worker_i, worker_state, database, exported,
                 push_i, writer, convert_pc>>
drVars == <<drDayinfo, drResult, drPc>>
cwVars == <<cwFiles, cwCount, cwResult, cwPc>>
stVars == <<stInfo, stResult, stPc>>
geVars == <<geStaged, geResult, gePc>>
cvVars == <<cvResult, cvPc>>
callVars == <<drVars, cwVars, stVars, geVars, cvVars>>
vars == <<rtToken, rtResult, rtPc,
          vjourneys, sections, service_operative_days, service_non_operative_days,
          pc, journey_i, section_i, link_i, stop_num, current_dt,
          section_times, gtfs_info,
          cdInfo, cdFetch, cdResult, cdPc,
          input_files, workers, worker_i, worker_state, database, exported,
          push_i, writer,
          convert_pc, calendar,
          drDayinfo, drResult, drPc, cwFiles, cwCount, cwResult, cwPc,
          stInfo, stResult, stPc,
          geStaged, geResult, gePc, cvResult, cvPc>>

-----------------------------------------------------------------------------
(* The values a subsystem's variables keep while another one runs.         *)

RuntimeIdle ==
  /\ rtToken = <<>>
  /\ rtResult = [raised |-> FALSE, time |-> 0]
  /\ rtPc = "idle"

ExpansionIdle ==
  /\ vjourneys = <<>>
  /\ sections = <<>>
  /\ service_operative_days = None
  /\ service_non_operative_days = None
  /\ pc = "idle"
  /\ journey_i = 1
  /\ section_i = 1
  /\ link_i = 1
  /\ stop_num = 1
  /\ current_dt = <<>>
  /\ section_times = [bound |-> FALSE, rows |-> <<>>]
  /\ gtfs_info = <<>>
  /\ calendar = [raised |-> FALSE, rows |-> <<>>]

-----------------------------------------------------------------------------
CalendarDatesIdle ==
  /\ cdInfo = <<>>
  /\ cdFetch = "ok"
  /\ cdResult = [status |-> "None", rows |-> <<>>, warnings |-> {}]
  /\ cdPc = "idle"

ConvertIdle ==
  /\ input_files = <<>>
  /\ workers = <<>>
  /\ worker_i = <<>>
  /\ worker_state = <<>>
  /\ database = {}
  /\ exported = {}
  /\ push_i = <<>>
  /\ writer = 0
  /\ convert_pc = "idle"

DayRangeIdle ==
  /\ drDayinfo = <<>>
  /\ drResult = [raised |-> FALSE, row |-> DayRow({})]
  /\ drPc = "idle"

WorkersIdle ==
  /\ cwFiles = <<>>
  /\ cwCount = 1
  /\ cwResult = <<>>
  /\ cwPc = "idle"

StopTimesIdle ==
  /\ stInfo = <<>>
  /\ stResult = {}
  /\ stPc = "idle"

GtfsExportIdle ==
  /\ geStaged = <<>>
  /\ geResult = <<>>
  /\ gePc = "idle"

ConverterDayRangeIdle ==
  /\ cvResult = [raised |-> FALSE, row |-> DayRow({})]
  /\ cvPc = "idle"

CallsIdle ==
  /\ DayRangeIdle
  /\ WorkersIdle
  /\ StopTimesIdle
  /\ GtfsExportIdle
  /\ ConverterDayRangeIdle

-----------------------------------------------------------------------------
(* parse_runtime_duration called on one token.                             *)

RuntimeInit ==
  /\ rtToken \in RuntimeTokens
  /\ rtResult = [raised |-> FALSE, time |-> 0]
  /\ rtPc = "call"
  /\ ExpansionIdle
  /\ CalendarDatesIdle
  /\ ConvertIdle
  /\ CallsIdle

ParseRuntime ==
  /\ rtPc = "call"
  /\ rtResult' = parse_runtime_duration(rtToken)
  /\ rtPc' = "return"
  /\ UNCHANGED <<callVars, rtToken, pvjVars, cdVars, convertVars>>

RuntimeNext == ParseRuntime

SpecRuntime == RuntimeInit /\ [][RuntimeNext]_vars

-----------------------------------------------------------------------------
(* transxchange.py: process_vehicle_journeys, one action per stretch of    *)
(* code between two loop heads.                                            *)

ExpansionInit ==
  /\ vjourneys \in JourneyLists
  /\ sections \in Documents
  /\ service_operative_days \in {None, "MondayToFriday"}
  /\ service_non_operative_days \in {"AllBankHolidays"}
  /\ pc = "journey"
  /\ journey_i = 1
  /\ section_i = 1
  /\ link_i = 1
  /\ stop_num = 1
  /\ current_dt = <<>>
  /\ section_times = [bound |-> FALSE, rows |-> <<>>]
  /\ gtfs_info = <<>>
  /\ calendar = [raised |-> FALSE, rows |-> <<>>]
  /\ RuntimeIdle
  /\ CalendarDatesIdle
  /\ ConvertIdle
  /\ CallsIdle

\* The journey of the running iteration and what lines 117-158 read from it.
Journey == vjourneys[journey_i]
JourneyWeekdays(journey) ==
  IF journey.weekdays = None THEN service_operative_days ELSE journey.weekdays
JourneyNonOperativeDays(journey) ==
  IF journey.non_operative_days = None THEN service_non_operative_days
  ELSE journey.non_operative_days
JourneyHour(journey) == journey.DepartureTime[1]
JourneyMinute(journey) == journey.DepartureTime[2]

\* str(n) for n >= 0: the decimal digits of n.
DigitChar(d) ==
  CASE d = 0 -> "0" [] d = 1 -> "1" [] d = 2 -> "2" [] d = 3 -> "3" [] d = 4 -> "4"
    [] d = 5 -> "5" [] d = 6 -> "6" [] d = 7 -> "7" [] d = 8 -> "8" [] d = 9 -> "9"
RECURSIVE Str(_)
Str(n) == IF n < 10 THEN <<DigitChar(n)>> ELSE Str(n \div 10) \o <<DigitChar(n % 10)>>

\* s.zfill(width)
RECURSIVE ZFill(_, _)
ZFill(s, width) == IF Len(s) >= width THEN s ELSE ZFill(<<"0">> \o s, width)

\* The trip_id as it would be without zfill.
TripIdWithoutZfill(section_id, weekdays, hour, minute) ==
  <<section_id, "_", weekdays, "_">> \o Str(hour) \o Str(minute)

\* "%s_%s_%s%s" % (section_id, weekdays, str(hour).zfill(2), str(minute).zfill(2)):
\* the section id and the weekdays value are kept whole (a weekdays value
\* holds no '_'), the digits of hour and minute are characters.
TripId(section_id, weekdays, hour, minute) ==
  <<section_id, "_", weekdays, "_">> \o ZFill(Str(hour), 2) \o ZFill(Str(minute), 2)

\* The fields lines 239-252 and 265-278 copy from the journey into a row.
\* (agency_id, route_id, direction_id, line_name, travel_mode, trip_headsign
\* and vehicle_type are copied the same way and left out.)
JourneyRow(journey, section_id, info, timepoint, route_link_ref, non_operative_days) ==
  [stop_id |-> info.stop_id,
   stop_sequence |-> info.stop_sequence,
   timepoint |-> timepoint,
   arrival_time |-> info.arrival_time,
   departure_time |-> info.departure_time,
   route_link_ref |-> route_link_ref,
   trip_id |-> TripId(section_id, JourneyWeekdays(journey),
                      JourneyHour(journey), JourneyMinute(journey)),
   vehicle_journey_id |-> journey.VehicleJourneyCode,
   service_ref |-> journey.ServiceRef,
   start_date |-> PatternInfo(journey.JourneyPatternRef).start_date,
   end_date |-> PatternInfo(journey.JourneyPatternRef).end_date,
   weekdays |-> JourneyWeekdays(journey),
   non_operative_days |-> non_operative_days]

\* Lines 113-163: the head of the journey loop.
StartJourney ==
  /\ pc = "journey"
  /\ journey_i <= Len(vjourneys)
  /\ current_dt' = <<>>
  /\ stop_num' = 1
  /\ section_i' = 1
  /\ pc' = "section"
  /\ UNCHANGED <<callVars, calendar, pvjInputs, rtVars, cdVars, convertVars, journey_i, link_i, section_times, gtfs_info>>

\* Lines 164-177: a section the pattern does not reference.
SkipSection ==
  /\ pc = "section"
  /\ section_i <= Len(sections)
  /\ sections[section_i].id \notin SectionReferences(Journey.JourneyPatternRef)
  /\ section_i' = section_i + 1
  /\ UNCHANGED <<callVars, calendar, pvjInputs, rtVars, cdVars, convertVars, pc, journey_i, link_i, stop_num, current_dt,
                 section_times, gtfs_info>>

\* Lines 164-181: a referenced section.
EnterSection ==
  /\ pc = "section"
  /\ section_i <= Len(sections)
  /\ sections[section_i].id \in SectionReferences(Journey.JourneyPatternRef)
  /\ section_times' = [bound |-> TRUE, rows |-> <<>>]
  /\ link_i' = 1
  /\ pc' = "link"
  /\ UNCHANGED <<callVars, calendar, pvjInputs, rtVars, cdVars, convertVars, journey_i, section_i, stop_num, current_dt, gtfs_info>>

\* Lines 194-207: the cursor of the row of a link whose run-time is duration.
AdvanceCursor(cursor, duration) == cursor + duration

\* Lines 185-256: one timing link.
ProcessLink ==
  /\ pc = "link"
  /\ link_i <= Len(sections[section_i].links)
  /\ LET link == sections[section_i].links[link_i]
         parsed == parse_runtime_duration(link.RunTime)
         duration == parsed.time
         first == current_dt = <<>>
         dt == IF first THEN Combine(JourneyHour(Journey), JourneyMinute(Journey), 0)
               ELSE AdvanceCursor(current_dt[1], duration)
         departure_dt == IF first THEN dt ELSE dt + boarding_time
         timepoint == IF first THEN 1 ELSE 0
         t == FormattedTimes(JourneyHour(Journey), dt, departure_dt)
         info == [stop_id |-> link.From, stop_sequence |-> stop_num,
                  arrival_time |-> t.arrival_time, departure_time |-> t.departure_time]
         row == JourneyRow(Journey, sections[section_i].id, info, timepoint,
                           link.RouteLinkRef, JourneyNonOperativeDays(Journey))
     IN IF parsed.raised
        THEN /\ pc' = "raised"
             /\ UNCHANGED <<current_dt, section_times, stop_num, link_i>>
        ELSE /\ current_dt' = <<dt>>
             /\ section_times' = [section_times EXCEPT !.rows = Append(@, row)]
             /\ stop_num' = stop_num + 1
             /\ link_i' = link_i + 1
             /\ pc' = pc
  /\ UNCHANGED <<callVars, calendar, pvjInputs, rtVars, cdVars, convertVars, journey_i, section_i, gtfs_info>>

\* Lines 258-279: the row of the last stop of the section, made from the
\* loop's last link and duration; it has no non_operative_days.
CloseSection ==
  /\ pc = "link"
  /\ link_i > Len(sections[section_i].links)
  /\ LET links == sections[section_i].links
         link == links[Len(links)]
         duration == parse_runtime_duration(link.RunTime).time
         info == get_last_stop_time_info(link, JourneyHour(Journey), current_dt[1],
                                         duration, stop_num)
         row == JourneyRow(Journey, sections[section_i].id, info, 0,
                           link.RouteLinkRef, NaN)
     IN section_times' = [section_times EXCEPT !.rows = Append(@, row)]
  /\ section_i' = section_i + 1
  /\ pc' = "section"
  /\ UNCHANGED <<callVars, calendar, pvjInputs, rtVars, cdVars, convertVars, journey_i, link_i, stop_num, current_dt, gtfs_info>>

\* Lines 281-282: after the section loop section_times is appended; the name
\* is unbound (UnboundLocalError) if no section was entered so far.
AppendJourney ==
  /\ pc = "section"
  /\ section_i > Len(sections)
  /\ IF section_times.bound
     THEN /\ gtfs_info' = gtfs_info \o section_times.rows
          /\ journey_i' = journey_i + 1
          /\ pc' = "journey"
     ELSE /\ pc' = "raised"
          /\ UNCHANGED <<gtfs_info, journey_i>>
  /\ UNCHANGED <<callVars, calendar, pvjInputs, rtVars, cdVars, convertVars, section_i, link_i, stop_num, current_dt, section_times>>

\* Lines 284-287: after the journey loop.
FinishJourneys ==
  /\ pc = "journey"
  /\ journey_i > Len(vjourneys)
  /\ gtfs_info' = generate_service_id(gtfs_info)
  /\ pc' = "done"
  /\ UNCHANGED <<callVars, calendar, pvjInputs, rtVars, cdVars, convertVars, journey_i, section_i, link_i, stop_num, current_dt,
                 section_times>>

\* calendar.py: get_calendar called on the table process_vehicle_journeys
\* returned; an error of parse_day_range leaves the call.
GetCalendar ==
  /\ pc = "done"
  /\ calendar' = get_calendar(gtfs_info)
  /\ pc' = IF get_calendar(gtfs_info).raised THEN "calendar_raised" ELSE "calendar"
  /\ UNCHANGED <<callVars, pvjInputs, rtVars, cdVars, convertVars, journey_i, section_i, link_i,
                 stop_num, current_dt, section_times, gtfs_info>>

ExpansionNext ==
  \/ StartJourney
  \/ SkipSection
  \/ EnterSection
  \/ ProcessLink
  \/ CloseSection
  \/ AppendJourney
  \/ FinishJourneys
  \/ GetCalendar

Spec == ExpansionInit /\ [][ExpansionNext]_vars

-----------------------------------------------------------------------------
(* get_calendar_dates called on one table.                                 *)

CalendarDatesInit ==
  /\ cdInfo \in CalendarInputs
  /\ cdFetch \in FetchOutcomes
  /\ cdResult = [status |-> "None", rows |-> <<>>, warnings |-> {}]
  /\ cdPc = "call"
  /\ RuntimeIdle
  /\ ExpansionIdle
  /\ ConvertIdle
  /\ CallsIdle

GetCalendarDates ==
  /\ cdPc = "call"
  /\ cdResult' = get_calendar_dates(cdInfo, cdFetch)
  /\ cdPc' = "return"
  /\ UNCHANGED <<callVars, cdInfo, cdFetch, rtVars, pvjVars, convertVars>>

CalendarDatesNext == GetCalendarDates

SpecCalendarDates == CalendarDatesInit /\ [][CalendarDatesNext]_vars

-----------------------------------------------------------------------------
(* converter.py: convert.  pool.map runs process_files on every worker in  *)
(* a process of its own, the file loops interleave; it returns, or raises  *)
(* the first error of a worker again, once every worker has ended.         *)

ConvertInit ==
  /\ input_files \in InputFileLists
  /\ workers = <<>>
  /\ worker_i = <<>>
  /\ worker_state = <<>>
  /\ database = {}
  /\ exported = {}
  /\ push_i = <<>>
  /\ writer = 0
  /\ convert_pc = "create_workers"
  /\ RuntimeIdle
  /\ ExpansionIdle
  /\ CalendarDatesIdle
  /\ CallsIdle

\* Lines 1455-1460
CreateWorkers ==
  /\ convert_pc = "create_workers"
  /\ workers' = create_workers(input_files, CoreCount)
  /\ worker_i' = [w \in 1..CoreCount |-> 1]
  /\ worker_state' = [w \in 1..CoreCount |-> "running"]
  /\ push_i' = [w \in 1..CoreCount |-> 0]
  /\ convert_pc' = "map"
  /\ UNCHANGED <<callVars, input_files, database, exported, writer, rtVars, pvjVars, cdVars>>

\* What an error raised inside the file loop of process_files does to the
\* worker: nothing catches it, the call ends.
OnDocumentError(w) == [worker_state EXCEPT ![w] = "raised"]

\* process_files, lines 1353-1396: one turn of the file loop of worker w up
\* to sqlite3.connect: the file is skipped for its size, or parsing and
\* deriving its tables raises, or the tables are ready to be pushed.
ProcessFile(w) ==
  /\ convert_pc = "map"
  /\ worker_state[w] = "running"
  /\ worker_i[w] <= Len(workers[w])
  /\ push_i[w] = 0
  /\ LET fp == workers[w][worker_i[w]]
     IN CASE fp.kind = "oversize" ->
               /\ worker_i' = [worker_i EXCEPT ![w] = @ + 1]
               /\ UNCHANGED <<worker_state, push_i>>
          [] fp.kind = "malformed" ->
               /\ worker_state' = OnDocumentError(w)
               /\ UNCHANGED <<worker_i, push_i>>
          [] fp.kind = "ok" ->
               /\ push_i' = [push_i EXCEPT ![w] = 1]
               /\ UNCHANGED <<worker_i, worker_state>>
  /\ UNCHANGED <<callVars, input_files, workers, database, exported, writer, convert_pc,
                 rtVars, pvjVars, cdVars>>

\* Lines 1401-1410: a to_sql call of worker w starts to write: its
\* transaction takes the write lock of gtfs.db, which no other holds.
BeginAppend(w) ==
  /\ convert_pc = "map"
  /\ worker_state[w] = "running"
  /\ push_i[w] \in 1..Len(Tables)
  /\ writer = 0
  /\ writer' = w
  /\ UNCHANGED <<callVars, input_files, workers, worker_i, worker_state, database, exported,
                 push_i, convert_pc, rtVars, pvjVars, cdVars>>

\* Lines 1401-1413: the to_sql call of worker w commits: the rows of the
\* table are in gtfs.db and the lock is free; after the last table the
\* connection is closed and the file loop goes on (lines 1413-1419).
CommitAppend(w) ==
  /\ convert_pc = "map"
  /\ writer = w
  /\ database' = database \cup {<<workers[w][worker_i[w]].name, Tables[push_i[w]]>>}
  /\ writer' = 0
  /\ IF push_i[w] = Len(Tables)
     THEN /\ push_i' = [push_i EXCEPT ![w] = 0]
          /\ worker_i' = [worker_i EXCEPT ![w] = @ + 1]
     ELSE /\ push_i' = [push_i EXCEPT ![w] = @ + 1]
          /\ UNCHANGED worker_i
  /\ UNCHANGED <<callVars, input_files, workers, worker_state, exported, convert_pc,
                 rtVars, pvjVars, cdVars>>

\* Lines 1396-1410: a to_sql call of worker w finds the write lock held by
\* another worker's transaction.  The connection waits for the lock (no step)
\* up to the timeout of sqlite3.connect; when the time is over to_sql raises
\* sqlite3.OperationalError (database is locked), which nothing catches
\* (the TODO of line 1399).
AppendLocked(w) ==
  /\ convert_pc = "map"
  /\ worker_state[w] = "running"
  /\ push_i[w] \in 1..Len(Tables)
  /\ writer \notin {0, w}
  /\ worker_state' = OnDocumentError(w)
  /\ UNCHANGED <<callVars, input_files, workers, worker_i, database, exported, push_i, writer,
                 convert_pc, rtVars, pvjVars, cdVars>>

\* process_files returns after the last file.
FinishWorker(w) ==
  /\ convert_pc = "map"
  /\ worker_state[w] = "running"
  /\ worker_i[w] > Len(workers[w])
  /\ worker_state' = [worker_state EXCEPT ![w] = "finished"]
  /\ UNCHANGED <<callVars, input_files, workers, worker_i, database, exported, push_i, writer,
                 convert_pc, rtVars, pvjVars, cdVars>>

\* Line 1463: pool.map returns, or raises what a worker raised.
MapReturns ==
  /\ convert_pc = "map"
  /\ \A w \in 1..CoreCount : worker_state[w] # "running"
  /\ convert_pc' = IF \E w \in 1..CoreCount : worker_state[w] = "raised"
                   THEN "raised" ELSE "export"
  /\ UNCHANGED <<callVars, input_files, workers, worker_i, worker_state, database, exported,
                 push_i, writer, rtVars, pvjVars, cdVars>>

\* Lines 1471-1475: generate_gtfs_export reads the tables of gtfs.db (an error
\* if no document has made them), save_to_gtfs_zip writes them.
Export ==
  /\ convert_pc = "export"
  /\ IF database = {}
     THEN convert_pc' = "raised" /\ UNCHANGED exported
     ELSE convert_pc' = "done" /\ exported' = database
  /\ UNCHANGED <<callVars, input_files, workers, worker_i, worker_state, database,
                 push_i, writer, rtVars, pvjVars, cdVars>>

ConvertNext ==
  \/ CreateWorkers
  \/ \E w \in 1..CoreCount : ProcessFile(w)
  \/ \E w \in 1..CoreCount : BeginAppend(w)
  \/ \E w \in 1..CoreCount : CommitAppend(w)
  \/ \E w \in 1..CoreCount : AppendLocked(w)
  \/ \E w \in 1..CoreCount : FinishWorker(w)
  \/ MapReturns
  \/ Export

SpecConvert == ConvertInit /\ [][ConvertNext]_vars

-----------------------------------------------------------------------------
(* parse_day_range called on one day specifier.                            *)

DayRangeInit ==
  /\ drDayinfo \in DaySpecifiers
  /\ drResult = [raised |-> FALSE, row |-> DayRow({})]
  /\ drPc = "call"
  /\ RuntimeIdle
  /\ ExpansionIdle
  /\ CalendarDatesIdle
  /\ ConvertIdle
  /\ WorkersIdle
  /\ StopTimesIdle
  /\ GtfsExportIdle
  /\ ConverterDayRangeIdle

ParseDayRange ==
  /\ drPc = "call"
  /\ drResult' = parse_day_range(drDayinfo)
  /\ drPc' = "return"
  /\ UNCHANGED <<drDayinfo, cwVars, stVars, geVars, cvVars, rtVars, pvjVars, cdVars, convertVars>>

DayRangeNext == ParseDayRange

SpecDayRange == DayRangeInit /\ [][DayRangeNext]_vars

-----------------------------------------------------------------------------
(* converter.py: parse_day_range, the one get_calendar of converter.py     *)
(* calls in process_files.  active_days is a list of day numbers and, for  *)
(* 'weekend', of day names: an element is <<"int", n>> or <<"str", name>>. *)

\* Lines 1018-1034: the row of the active days; `daynum in active_days`
\* holds for an element that is that number, never for a name.
converter_day_row(active_days) ==
  [daynum \in 0..6 |-> IF <<"int", daynum>> \in active_days THEN 1 ELSE 0]

\* Lines 978-1034.
converter_parse_day_range(dayinfo) ==
  IF dayinfo = <<None>> THEN DayRangeError
  ELSE IF HasSubstring(Lower(Strip(dayinfo)), <<"w", "e", "e", "k", "e", "n", "d">>)
  THEN [raised |-> FALSE,
        row |-> converter_day_row({<<"str", "saturday">>, <<"str", "sunday">>})]
  ELSE IF HasSubstring(dayinfo, <<"T", "o">>)
  THEN LET day_range == Split(dayinfo, <<"T", "o">>)
       IN IF IsWeekdayKey(Lower(day_range[1])) /\ IsWeekdayKey(Lower(day_range[2]))
          THEN LET start_i == weekday_to_num(Lower(day_range[1]))
                   end_i == weekday_to_num(Lower(day_range[2]))
               IN [raised |-> FALSE,
                   row |-> converter_day_row({<<"int", idx>> :
                                                idx \in ActiveDaysOfRange(start_i, end_i)})]
          ELSE DayRangeError
  ELSE IF HasSubstring(dayinfo, <<"|">>)
  THEN LET days == Split(dayinfo, <<"|">>)
       IN IF \A k \in 1..Len(days) : IsWeekdayKey(Lower(days[k]))
          THEN [raised |-> FALSE,
                row |-> converter_day_row({<<"int", weekday_to_num(Lower(days[k]))>> :
                                             k \in 1..Len(days)})]
          ELSE DayRangeError
  ELSE IF IsWeekdayKey(Lower(dayinfo))
  THEN [raised |-> FALSE,
        row |-> converter_day_row({<<"int", weekday_to_num(Lower(dayinfo))>>})]
  ELSE DayRangeError

\* Both functions called on the same day specifier, in either order.
BothDayRangesInit ==
  /\ drDayinfo \in DaySpecifiers
  /\ drResult = [raised |-> FALSE, row |-> DayRow({})]
  /\ drPc = "call"
  /\ cvResult = [raised |-> FALSE, row |-> DayRow({})]
  /\ cvPc = "call"
  /\ RuntimeIdle
  /\ ExpansionIdle
  /\ CalendarDatesIdle
  /\ ConvertIdle
  /\ WorkersIdle
  /\ StopTimesIdle
  /\ GtfsExportIdle

ConverterParseDayRange ==
  /\ cvPc = "call"
  /\ cvResult' = converter_parse_day_range(drDayinfo)
  /\ cvPc' = "return"
  /\ UNCHANGED <<drVars, cwVars, stVars, geVars, rtVars, pvjVars, cdVars, convertVars>>

BothDayRangesNext ==
  \/ ParseDayRange
  \/ ConverterParseDayRange

SpecBothDayRanges == BothDayRangesInit /\ [][BothDayRangesNext]_vars

-----------------------------------------------------------------------------
(* distribute.py: create_workers called with a number of workers.          *)

WorkersInit ==
  /\ cwFiles \in WorkerFileLists
  /\ cwCount \in 1..MaxWorkers
  /\ cwResult = <<>>
  /\ cwPc = "call"
  /\ RuntimeIdle
  /\ ExpansionIdle
  /\ CalendarDatesIdle
  /\ ConvertIdle
  /\ DayRangeIdle
  /\ StopTimesIdle
  /\ GtfsExportIdle
  /\ ConverterDayRangeIdle

\* Lines 15-16: core_cnt is worker_cnt.
CreateWorkersCall ==
  /\ cwPc = "call"
  /\ cwResult' = create_workers(cwFiles, cwCount)
  /\ cwPc' = "return"
  /\ UNCHANGED <<cwFiles, cwCount, drVars, stVars, geVars, cvVars, rtVars, pvjVars, cdVars, convertVars>>

WorkersNext == CreateWorkersCall

SpecWorkers == WorkersInit /\ [][WorkersNext]_vars

-----------------------------------------------------------------------------
(* stop_times.py: get_stop_times                                           *)

StopTimesRow(row) ==
  [trip_id |-> row.trip_id, arrival_time |-> row.arrival_time,
   departure_time |-> row.departure_time, stop_id |-> row.stop_id,
   stop_sequence |-> row.stop_sequence, timepoint |-> row.timepoint]

\* get_stop_times as it would be if every trip was kept.
get_stop_times_without_filter(info) == {StopTimesRow(info[i]) : i \in 1..Len(info)}

\* The rows of the stop_times table: the stop_times columns without
\* duplicates, the trips of a single row left out.  (The order of the rows,
\* which groupby sorts by trip_id, is not kept.)
get_stop_times(info) ==
  LET stop_times == {StopTimesRow(info[i]) : i \in 1..Len(info)}
      group(trip_id) == {r \in stop_times : r.trip_id = trip_id}
  IN {r \in stop_times : Cardinality(group(r.trip_id)) > 1}

\* The tables get_stop_times is called on: up to MaxRows rows of two trips,
\* a row more than once included.
MaxRows == 3
StopRow(trip, n) ==
  [trip_id |-> trip, arrival_time |-> <<10, n, 0>>, departure_time |-> <<10, n, 0>>,
   stop_id |-> <<trip, n>>, stop_sequence |-> n, timepoint |-> IF n = 1 THEN 1 ELSE 0]
StopRows == {StopRow(trip, n) : trip \in {"T1", "T2"}, n \in 1..3}
StopTables == UNION {[1..n -> StopRows] : n \in 1..MaxRows}

StopTimesInit ==
  /\ stInfo \in StopTables
  /\ stResult = {}
  /\ stPc = "call"
  /\ RuntimeIdle
  /\ ExpansionIdle
  /\ CalendarDatesIdle
  /\ ConvertIdle
  /\ DayRangeIdle
  /\ WorkersIdle
  /\ GtfsExportIdle
  /\ ConverterDayRangeIdle

GetStopTimes ==
  /\ stPc = "call"
  /\ stResult' = get_stop_times(stInfo)
  /\ stPc' = "return"
  /\ UNCHANGED <<stInfo, drVars, cwVars, geVars, cvVars, rtVars, pvjVars, cdVars, convertVars>>

StopTimesNext == GetStopTimes

SpecStopTimes == StopTimesInit /\ [][StopTimesNext]_vars

-----------------------------------------------------------------------------
(* What the claims speak of.                                               *)

-----------------------------------------------------------------------------
(* dataio.py: generate_gtfs_export, the calendar_dates table.  (The same   *)
(* code is in converter.py, lines 1270-1286, which convert calls.)         *)

\* Lines 172-179: the rows of calendar_dates read from gtfs.db, then
\* drop_duplicates(subset=['service_id']): the first row of every
\* service_id is kept, in row order.  A database without the table gives an
\* empty table (lines 180-182).
generate_gtfs_export(staged) ==
  LET kept == {i \in 1..Len(staged) :
                 \A j \in 1..(i - 1) : staged[j].service_id # staged[i].service_id}
      RECURSIVE RowsFrom(_)
      RowsFrom(i) ==
        IF i > Len(staged) THEN <<>>
        ELSE (IF i \in kept THEN <<staged[i]>> ELSE <<>>) \o RowsFrom(i + 1)
  IN RowsFrom(1)

\* The calendar_dates tables of gtfs.db: up to MaxStagedRows rows that
\* get_calendar_dates made (exception_type 2) for two services and two
\* bank holidays, a row more than once included.
MaxStagedRows == 3
StagedRows ==
  {[service_id |-> s, date |-> d, exception_type |-> 2] :
     s \in {"SV1", "SV2"}, d \in {20200410, 20200413}}
StagedTables == UNION {[1..n -> StagedRows] : n \in 0..MaxStagedRows}

GtfsExportInit ==
  /\ geStaged \in StagedTables
  /\ geResult = <<>>
  /\ gePc = "call"
  /\ RuntimeIdle
  /\ ExpansionIdle
  /\ CalendarDatesIdle
  /\ ConvertIdle
  /\ DayRangeIdle
  /\ WorkersIdle
  /\ StopTimesIdle
  /\ ConverterDayRangeIdle

GenerateGtfsExport ==
  /\ gePc = "call"
  /\ geResult' = generate_gtfs_export(geStaged)
  /\ gePc' = "return"
  /\ UNCHANGED <<geStaged, drVars, cwVars, stVars, cvVars, rtVars, pvjVars, cdVars, convertVars>>

GtfsExportNext == GenerateGtfsExport

SpecGtfsExport == GtfsExportInit /\ [][GtfsExportNext]_vars


\* A time string as a number of seconds, the hour free to pass 23.
TimeValue(t) == t[1] * 3600 + t[2] * 60 + t[3]

\* A row was emitted for the running journey and is the last of section_times:
\* the row of a link while the link loop runs, the closing row of a section
\* once the section loop is back at its head.
RowEmitted ==
  /\ pc \in {"link", "section"}
  /\ current_dt # <<>>
  /\ section_times.rows # <<>>
LastRow == section_times.rows[Len(section_times.rows)]

\* The section a row belongs to (the section_id of its trip_id).
SectionOfRow(row) == CHOOSE s \in {sections[i] : i \in 1..Len(sections)} : s.id = row.trip_id[1]

\* The cursor the last row was formatted from: current_dt for the row of a
\* link, current_dt plus the last link's duration for a closing row.
EmittedCursor ==
  IF pc = "link" THEN current_dt[1]
  ELSE LET links == SectionOfRow(LastRow).links
       IN current_dt[1] + parse_runtime_duration(links[Len(links)].RunTime).time

\* The timing links of a journey: those of the referenced sections, in
\* document order.
RECURSIVE LinksFrom(_, _)
LinksFrom(journey, i) ==
  IF i > Len(sections) THEN <<>>
  ELSE (IF sections[i].id \in SectionReferences(journey.JourneyPatternRef)
        THEN sections[i].links ELSE <<>>) \o LinksFrom(journey, i + 1)
JourneyLinks(journey) == LinksFrom(journey, 1)

\* The run-times of the first n links of a journey, added up.
RECURSIVE RunTimeSum(_, _)
RunTimeSum(links, n) ==
  IF n = 0 THEN 0
  ELSE RunTimeSum(links, n - 1) + parse_runtime_duration(links[n].RunTime).time

SecondsPerDay == 24 * 3600

\* C1: along a trip the emitted times never go backwards: arrival_time <=
\* departure_time in every row, and departure_time(i) <= arrival_time(i+1) for
\* the rows of consecutive stops of a vehicle journey, compared as numbers with
\* the hour free to pass 23.
C1_TimesNeverGoBackwards ==
  \A i \in 1..Len(gtfs_info) :
     /\ TimeValue(gtfs_info[i].arrival_time) <= TimeValue(gtfs_info[i].departure_time)
     /\ \A j \in 1..Len(gtfs_info) :
          ( /\ j = i + 1
            /\ gtfs_info[j].vehicle_journey_id = gtfs_info[i].vehicle_journey_id
            /\ gtfs_info[j].stop_sequence = gtfs_info[i].stop_sequence + 1 )
          => TimeValue(gtfs_info[i].departure_time) <= TimeValue(gtfs_info[j].arrival_time)

\* C2: the arrival time of the k-th stop of a trip is the trip's departure time
\* plus the run-times of the k-1 links before that stop (stated for the trips
\* that depart on a whole minute and for the stops reached before midnight).
C2_ArrivalIsDeparturePlusPriorRunTimes ==
  RowEmitted =>
    LET departure == Combine(Journey.DepartureTime[1], Journey.DepartureTime[2],
                             Journey.DepartureTime[3])
        expected == departure + RunTimeSum(JourneyLinks(Journey),
                                           LastRow.stop_sequence - 1)
    IN (Journey.DepartureTime[3] = 0 /\ expected < SecondsPerDay)
         => TimeValue(LastRow.arrival_time) = expected

\* C3: parse_runtime_duration returns 3600*h + 60*m + s for every token
\* PT[hH][mM][sS], each component optional.
C3_RuntimeIsHoursMinutesSeconds ==
  rtPc = "return" =>
    \A h \in Numbers \cup {<<>>}, m \in Numbers \cup {<<>>}, s \in Numbers \cup {<<>>} :
       rtToken = TokenOf(h, m, s) =>
         /\ ~rtResult.raised
         /\ rtResult.time = 3600 * StrToInt(h) + 60 * StrToInt(m) + StrToInt(s)

\* C4: once the cursor of a trip has passed midnight of the start day, the
\* hour of the emitted arrival and departure time is the cursor's hour-of-day
\* plus 24, never below 24.
C4_HourPastMidnightIsHourPlus24 ==
  (RowEmitted /\ EmittedCursor >= SecondsPerDay) =>
    /\ LastRow.arrival_time[1] = DtHour(EmittedCursor) + 24
    /\ LastRow.departure_time[1] = DtHour(EmittedCursor + boarding_time) + 24
    /\ LastRow.arrival_time[1] >= 24
    /\ LastRow.departure_time[1] >= 24

\* The vehicle journeys that have rows, and the first row of each.
JourneysWithRows == {gtfs_info[i].vehicle_journey_id : i \in 1..Len(gtfs_info)}
HeadRow(vj) == gtfs_info[CHOOSE i \in FirstRows(gtfs_info) :
                           gtfs_info[i].vehicle_journey_id = vj]

\* C5: two vehicle journeys get the same service_id if and only if they have
\* the same service reference, start date, end date and weekday pattern
\* (stated for the journeys that have a weekday pattern).
C5_SameServiceIdIffSameKey ==
  pc = "done" =>
    \A a \in JourneysWithRows, b \in JourneysWithRows :
       (~IsMissing(HeadRow(a).weekdays) /\ ~IsMissing(HeadRow(b).weekdays)) =>
         ( HeadRow(a).service_id = HeadRow(b).service_id
           <=> /\ HeadRow(a).service_ref = HeadRow(b).service_ref
               /\ HeadRow(a).start_date = HeadRow(b).start_date
               /\ HeadRow(a).end_date = HeadRow(b).end_date
               /\ HeadRow(a).weekdays = HeadRow(b).weekdays )

\* C6: in the stop_times output the stop_sequence values of every trip are
\* exactly 1, 2, ..., n, without gap or repetition.
C6_StopSequenceIsOneToN ==
  pc = "done" =>
    LET stop_times == get_stop_times(gtfs_info)
    IN \A t \in {r.trip_id : r \in stop_times} :
         LET rows == {r \in stop_times : r.trip_id = t}
         IN {r.stop_sequence : r \in rows} = 1..Cardinality(rows)

\* The labels of an exception specifier.
LabelsOf(days) ==
  IF days = MissingDays \/ days = <<>> THEN {}
  ELSE {Split(days, <<"|">>)[k] : k \in 1..Len(Split(days, <<"|">>))}

\* The labels of the journeys that carry service_id, their operative ranges,
\* and the dates of the calendar_dates rows made for it.
LabelsOfService(service_id) ==
  UNION {LabelsOf(cdInfo[i].non_operative_days) :
           i \in {k \in 1..Len(cdInfo) : cdInfo[k].service_id = service_id}}
RangesOfService(service_id) ==
  {[start_date |-> cdInfo[i].start_date, end_date |-> cdInfo[i].end_date] :
     i \in {k \in 1..Len(cdInfo) : cdInfo[k].service_id = service_id}}
DatesOfService(service_id) ==
  {cdResult.rows[k].date :
     k \in {j \in 1..Len(cdResult.rows) : cdResult.rows[j].service_id = service_id}}
ServiceIds == {cdInfo[i].service_id : i \in 1..Len(cdInfo)}

\* The titles the holiday table has for a date.
TitlesAt(date) ==
  UNION {{bholidays(available_regions[r])[i].title :
            i \in {k \in 1..Len(bholidays(available_regions[r])) :
                     bholidays(available_regions[r])[k].date = date}} :
         r \in 1..Len(available_regions)}

\* A holiday date is selected by a set of labels: by the catch-all label, or
\* by a known label whose holiday falls on it.
SelectedBy(labels, date) ==
  \/ <<"AllBankHolidays">> \in labels
  \/ \E l \in labels \cap KnownHolidayLabels : known_holidays(l) \in TitlesAt(date)

AllHolidayDates == {BankHolidayDates[k] : k \in 1..Len(BankHolidayDates)}

\* C7: every calendar_dates row (service_id, date) has its date inside the
\* operative range of the trips that carry the service_id.
C7_DatesInsideOperativeRange ==
  cdPc = "return" =>
    \A k \in 1..Len(cdResult.rows) :
       \A range \in RangesOfService(cdResult.rows[k].service_id) :
          /\ range.start_date <= cdResult.rows[k].date
          /\ cdResult.rows[k].date <= range.end_date

\* C8: the dates made for a service are exactly the holiday dates its labels
\* select: every date of its rows is selected by one of its labels, and every
\* selected holiday date inside its operative range has a row (stated for the
\* services whose labels are all recognized).
C8_DatesAreThoseTheLabelsSelect ==
  (cdPc = "return" /\ cdResult.status # "raised") =>
    \A s \in ServiceIds :
       (LabelsOfService(s) # {} /\ Unrecognized(LabelsOfService(s)) = {}) =>
         /\ \A d \in DatesOfService(s) : SelectedBy(LabelsOfService(s), d)
         /\ \A d \in AllHolidayDates :
              ( /\ SelectedBy(LabelsOfService(s), d)
                /\ \A range \in RangesOfService(s) :
                     range.start_date <= d /\ d <= range.end_date )
              => d \in DatesOfService(s)

\* C9: an unrecognized label only causes a warning: the call does not raise
\* because of it, and a service whose only labels are unrecognized gets no
\* calendar_dates rows.
C9_UnrecognizedLabelOnlyWarns ==
  cdPc = "return" =>
    /\ cdFetch # "URLError" => cdResult.status # "raised"
    /\ \A s \in ServiceIds :
         (LabelsOfService(s) # {} /\ Unrecognized(LabelsOfService(s)) = LabelsOfService(s))
           => /\ LabelsOfService(s) \subseteq cdResult.warnings
              /\ DatesOfService(s) = {}

\* The rows of the pushed tables of a set of files.
RowsOfFiles(names) == names \X {Tables[k] : k \in 1..Len(Tables)}

\* The files of a kind.
FilesOfKind(kind) ==
  {input_files[i].name : i \in {k \in 1..Len(input_files) : input_files[k].kind = kind}}

\* C10: if processing one document raises, only its rows are missing: the
\* conversion completes and exports the rows of every other document that is
\* not skipped for its size.
C10_FailureIsolatedToDocument ==
  ( /\ convert_pc \in {"done", "raised"}
    /\ FilesOfKind("malformed") # {}
    /\ FilesOfKind("ok") # {} )
  => /\ convert_pc = "done"
     /\ exported = RowsOfFiles(FilesOfKind("ok"))

\* C11: after generate_service_id every row of the expanded table carries a
\* non-null service_id.
C11_EveryRowHasServiceId ==
  pc = "done" => \A i \in 1..Len(gtfs_info) : gtfs_info[i].service_id # NoServiceId

\* The vehicle journeys that have rows, no weekday specifier of their own and
\* none by the service.
UnresolvedJourneys ==
  {k \in 1..Len(vjourneys) :
     /\ vjourneys[k].VehicleJourneyCode \in JourneysWithRows
     /\ vjourneys[k].weekdays = None
     /\ service_operative_days = None}

\* C12: a vehicle journey without a weekday specifier of its own whose service
\* has no default one makes the document fail with an error: no calendar is
\* made, so none marks the trip as operating, on all days or on some.
C12_UnresolvableWeekdaysFail ==
  (pc \in {"calendar", "calendar_raised"} /\ UnresolvedJourneys # {}) =>
    /\ pc = "calendar_raised"
    /\ calendar.raised
    /\ calendar.rows = <<>>

\* C12 witness: get_calendar has raised on a table with the rows of such a
\* journey.
C12_Witness ==
  /\ pc = "calendar_raised"
  /\ UnresolvedJourneys # {}
  /\ \E i \in 1..Len(gtfs_info) : IsMissing(gtfs_info[i].weekdays)

\* The specifier '<a>To<b>' and the list '<a>|<b>' of the days numbered a and b.
DayName(n) == Capitalized(num_to_weekday[n + 1])
RangeSpecifier(a, b) == DayName(a) \o <<"T", "o">> \o DayName(b)
ListSpecifier(a, b) == DayName(a) \o <<"|">> \o DayName(b)

\* C13: on '<Day>To<Day>' with the start day not after the end day
\* parse_day_range gives the days from the start day to the end day 1 and every
\* other day 0.
C13_DayRangeIsStartToEnd ==
  drPc = "return" =>
    \A a \in 0..6, b \in 0..6 :
       (a <= b /\ drDayinfo = RangeSpecifier(a, b)) =>
         /\ ~drResult.raised
         /\ \A d \in 0..6 : drResult.row[d] = IF a <= d /\ d <= b THEN 1 ELSE 0

\* C13 witness: MondayToWednesday has given monday, tuesday and wednesday.
C13_Witness ==
  /\ drPc = "return"
  /\ drDayinfo = RangeSpecifier(0, 2)
  /\ ~drResult.raised
  /\ {d \in 0..6 : drResult.row[d] = 1} = {0, 1, 2}

\* C14: parse_day_range gives saturday and sunday only for 'Weekend' in any
\* letter case and with blanks around it, the named day only for a day name,
\* the named days only for a '|'-separated list of day names; a result has the
\* seven day columns with the values 0 and 1.
C14_WeekendDayAndListOfDays ==
  drPc = "return" =>
    /\ Lower(Strip(drDayinfo)) = Lower(WeekendWord) =>
         (~drResult.raised /\ {d \in 0..6 : drResult.row[d] = 1} = {5, 6})
    /\ \A a \in 0..6 :
         drDayinfo = DayName(a) =>
           (~drResult.raised /\ {d \in 0..6 : drResult.row[d] = 1} = {a})
    /\ \A a \in 0..6, b \in 0..6 :
         drDayinfo = ListSpecifier(a, b) =>
           (~drResult.raised /\ {d \in 0..6 : drResult.row[d] = 1} = {a, b})
    /\ ~drResult.raised =>
         (DOMAIN drResult.row = 0..6 /\ \A d \in 0..6 : drResult.row[d] \in {0, 1})

\* C14 witness: ' Weekend ' has given saturday and sunday.
C14_Witness ==
  /\ drPc = "return"
  /\ drDayinfo = <<" ">> \o WeekendWord \o <<" ">>
  /\ ~drResult.raised
  /\ {d \in 0..6 : drResult.row[d] = 1} = {5, 6}

\* The rows of the table that carry exception labels.
LabelledRows == {i \in 1..Len(cdInfo) : LabelsOf(cdInfo[i].non_operative_days) # {}}

C19_EmptyResultWithoutLabelsOrHolidays ==
  cdPc = "return" =>
    /\ LabelledRows = {} => (cdResult.status = "None" /\ cdResult.rows = <<>>)
    /\ ( /\ LabelledRows # {}
         /\ \A i \in LabelledRows : \A d \in AllHolidayDates :
               ~(cdInfo[i].start_date <= d /\ d <= cdInfo[i].end_date) )
       => (cdResult.status = "None" /\ cdResult.rows = <<>>)

\* The batches of the workers one after the other, in worker order.
RECURSIVE Concatenated(_, _)
Concatenated(batches, w) ==
  IF w > Len(batches) THEN <<>> ELSE batches[w] \o Concatenated(batches, w + 1)

\* C16: the batches create_workers makes are contiguous slices of the file
\* list, one per worker, that give the list when put one after the other:
\* every file is in the batch of exactly one worker.
C16_BatchesPartitionTheFiles ==
  cwPc = "return" =>
    /\ Len(cwResult) = cwCount
    /\ Concatenated(cwResult, 1) = cwFiles
    /\ \A i \in 1..Len(cwFiles) :
         Cardinality({wk \in {<<w, k>> : w \in 1..Len(cwResult), k \in 1..MaxWorkerFiles + 1} :
                        /\ wk[2] <= Len(cwResult[wk[1]])
                        /\ cwResult[wk[1]][wk[2]] = cwFiles[i]}) = 1

\* C16 witness: five files were split for four workers, the last batch is
\* empty.
C16_Witness ==
  /\ cwPc = "return"
  /\ Len(cwFiles) = 5
  /\ cwCount = 4
  /\ cwResult[4] = <<>>
  /\ Len(cwResult[3]) = 1

\* The vehicle journey a row was made for, and the section it was made from
\* (the section of its stop).
JourneyOfRow(row) ==
  vjourneys[CHOOSE k \in 1..Len(vjourneys) :
              vjourneys[k].VehicleJourneyCode = row.vehicle_journey_id]
SectionIdOfRow(row) == row.stop_id[1]

\* C17: the rows of two expanded trips have the same trip_id exactly when the
\* trips share the section id, the weekday specifier and the hour and minute
\* of the departure time.
C17_TripIdIsSectionWeekdaysHourMinute ==
  \A i \in 1..Len(gtfs_info), j \in 1..Len(gtfs_info) :
     gtfs_info[i].trip_id = gtfs_info[j].trip_id
     <=> /\ SectionIdOfRow(gtfs_info[i]) = SectionIdOfRow(gtfs_info[j])
         /\ gtfs_info[i].weekdays = gtfs_info[j].weekdays
         /\ JourneyHour(JourneyOfRow(gtfs_info[i])) = JourneyHour(JourneyOfRow(gtfs_info[j]))
         /\ JourneyMinute(JourneyOfRow(gtfs_info[i])) = JourneyMinute(JourneyOfRow(gtfs_info[j]))

\* C17 witness: two vehicle journeys on the same section with the same
\* weekdays, one leaving at 01:23 and one at 12:03, have rows with different
\* trip_ids.
C17_Witness ==
  /\ pc = "done"
  /\ \E i \in 1..Len(gtfs_info), j \in 1..Len(gtfs_info) :
        /\ SectionIdOfRow(gtfs_info[i]) = SectionIdOfRow(gtfs_info[j])
        /\ gtfs_info[i].weekdays = gtfs_info[j].weekdays
        /\ JourneyOfRow(gtfs_info[i]).DepartureTime = <<1, 23, 0>>
        /\ JourneyOfRow(gtfs_info[j]).DepartureTime = <<12, 3, 0>>
        /\ gtfs_info[i].trip_id # gtfs_info[j].trip_id

\* The stop rows a table has for a trip_id.
StopRowsOfTrip(trip_id) ==
  {StopTimesRow(stInfo[i]) : i \in {k \in 1..Len(stInfo) : stInfo[k].trip_id = trip_id}}

\* C18: get_stop_times leaves out every trip_id that has one stop row and
\* keeps every row of every trip_id that has two or more; it returns.
C18_SingleRowTripsAreExcluded ==
  stPc = "return" =>
    \A trip_id \in {stInfo[i].trip_id : i \in 1..Len(stInfo)} :
       /\ Cardinality(StopRowsOfTrip(trip_id)) = 1 =>
            {r \in stResult : r.trip_id = trip_id} = {}
       /\ Cardinality(StopRowsOfTrip(trip_id)) >= 2 =>
            {r \in stResult : r.trip_id = trip_id} = StopRowsOfTrip(trip_id)

\* C18 witness: of a table with two rows of one trip and one row of another
\* the two rows are returned.
C18_Witness ==
  /\ stPc = "return"
  /\ Cardinality(StopRowsOfTrip("T1")) = 2
  /\ Cardinality(StopRowsOfTrip("T2")) = 1
  /\ stResult = StopRowsOfTrip("T1")

\* The rows of the expanded table made for a vehicle journey, in table order.
RowsOfJourney(journey) ==
  SelectSeq(gtfs_info, LAMBDA r : r.vehicle_journey_id = journey.VehicleJourneyCode)

\* C20: a vehicle journey whose referenced sections hold n timing links has
\* n+1 rows: the from-stops of the links in document order, then one closing
\* row for the to-stop of the last link.
C20_JourneyHasLinksPlusOneRows ==
  pc = "done" =>
    \A k \in 1..Len(vjourneys) :
       LET links == JourneyLinks(vjourneys[k])
           rows == RowsOfJourney(vjourneys[k])
           n == Len(links)
       IN n >= 1 =>
            /\ Len(rows) = n + 1
            /\ \A m \in 1..n : rows[m].stop_id = links[m].From
            /\ rows[n + 1].stop_id = links[n].To


\* The ids of the JourneyPatternSections of the document.
SectionIds == {sections[i].id : i \in 1..Len(sections)}

\* C21: a vehicle journey none of whose section references matches a section
\* of the document adds no rows: when its section loop ends, the table is
\* left as it was and processing goes on with the next journey.
C21_UnmatchedJourneyAddsNothing ==
  [][(/\ pc = "section"
      /\ section_i > Len(sections)
      /\ SectionReferences(Journey.JourneyPatternRef) \cap SectionIds = {})
     => (/\ gtfs_info' = gtfs_info
         /\ journey_i' = journey_i + 1
         /\ pc' = "journey")]_vars


\* C22: the table get_calendar returns holds at most one row per service_id.
C22_CalendarHasOneRowPerService ==
  pc = "calendar" =>
    \A i, j \in 1..Len(calendar.rows) :
       calendar.rows[i].service_id = calendar.rows[j].service_id => i = j


\* C23: when the workers append concurrently to the shared database, no
\* worker aborts because another one is writing and no append is lost: for
\* input files none of which fails to expand, once pool.map is over every
\* worker has finished and the rows of every file that is not skipped for
\* its size are in the database.
C23_ConcurrentAppendsAllArrive ==
  ( /\ convert_pc \in {"export", "done", "raised"}
    /\ FilesOfKind("malformed") = {} )
  => /\ \A w \in 1..CoreCount : worker_state[w] = "finished"
     /\ RowsOfFiles(FilesOfKind("ok")) \subseteq database


\* C24: every row of the expanded table, the closing row of the final stop
\* included, carries its trip's weekday specifier, exception-label
\* specifier, service reference and operative start and end dates.
C24_RowsCarryTripAttributes ==
  \A k \in 1..Len(gtfs_info) :
     LET row == gtfs_info[k]
         journey == JourneyOfRow(row)
         pattern == PatternInfo(journey.JourneyPatternRef)
     IN /\ row.weekdays = JourneyWeekdays(journey)
        /\ row.non_operative_days = JourneyNonOperativeDays(journey)
        /\ row.service_ref = journey.ServiceRef
        /\ row.start_date = pattern.start_date
        /\ row.end_date = pattern.end_date


\* C25: the first row of each vehicle journey has timepoint 1 and its
\* arrival_time and departure_time are the journey's departure time of day,
\* hours, minutes and seconds; every later row of the journey has timepoint 0.
C25_FirstRowIsDepartureTimepoint ==
  pc = "done" =>
    \A k \in 1..Len(vjourneys) :
       LET rows == RowsOfJourney(vjourneys[k])
       IN Len(rows) >= 1 =>
            /\ rows[1].timepoint = 1
            /\ rows[1].arrival_time = vjourneys[k].DepartureTime
            /\ rows[1].departure_time = vjourneys[k].DepartureTime
            /\ \A m \in 2..Len(rows) : rows[m].timepoint = 0


\* The tokens of the form PT[nH][nM][nS] with at least one component.
DurationTokens == WellFormedTokens \ {<<"P", "T">>}

\* C26: parse_runtime_duration raises an error for every run-time token that
\* is not of the form PT[nH][nM][nS] with at least one component; it never
\* returns 0 or a partial duration for such a token.
C26_MalformedRuntimeRaises ==
  (rtPc = "return" /\ rtToken \notin DurationTokens) => rtResult.raised


\* C27: parse_day_range on '<Day>To<Day>' whose end day precedes its start
\* day in the order monday ... sunday raises no error and gives the row with
\* 0 in all seven day columns.
C27_ReverseRangeIsAllZero ==
  drPc = "return" =>
    \A a \in 0..6, b \in 0..6 :
       (b < a /\ drDayinfo = RangeSpecifier(a, b)) =>
         /\ ~drResult.raised
         /\ \A d \in 0..6 : drResult.row[d] = 0

\* C27 witness: SaturdayToMonday has given no active day.
C27_Witness ==
  /\ drPc = "return"
  /\ drDayinfo = RangeSpecifier(5, 0)
  /\ ~drResult.raised
  /\ {d \in 0..6 : drResult.row[d] = 1} = {}


\* DaysOfWeek element names: the day names, a day range and Weekend.
DaysOfWeekElements == DayNames \cup {RangeSpecifier(0, 4), WeekendWord}

\* C28: for a specifier of DaysOfWeek element names joined with '|',
\* parse_day_range gives the union of the rows of the elements, also when
\* an element is a day range or Weekend.
C28_ListIsUnionOfElements ==
  drPc = "return" =>
    \A e1 \in DaysOfWeekElements, e2 \in DaysOfWeekElements :
       drDayinfo = e1 \o <<"|">> \o e2 =>
         /\ ~drResult.raised
         /\ \A d \in 0..6 :
              drResult.row[d] = 1 <=> \/ parse_day_range(e1).row[d] = 1
                                      \/ parse_day_range(e2).row[d] = 1


\* The rows of a table, as a set.
RowSet(table) == {table[k] : k \in 1..Len(table)}

\* C29: generate_gtfs_export keeps every distinct (service_id, date) row of
\* the staged calendar_dates table: all the exception dates a service has in
\* the database are in the exported calendar_dates.
C29_ExportKeepsEveryServiceDate ==
  gePc = "return" => RowSet(geStaged) \subseteq RowSet(geResult)


\* C30: parse_day_range of converter.py and parse_day_range of calendar.py
\* give the same 7-day row for every weekday specifier: Weekend, a day
\* range, a '|' list and a single day.
C30_BothDayRangesAgree ==
  (drPc = "return" /\ cvPc = "return") =>
    /\ cvResult.raised = drResult.raised
    /\ cvResult.row = drResult.row

=============================================================================
